---- MODULE Spec2Model ----
(***************************************************************************)
(* mail-mind-ai: the hybrid e-mail classifier                              *)
(* (backend/app/agents/classifier.py) and its callers.                     *)
(*                                                                         *)
(* Python strings are TLA+ strings (TLC evaluates Len, SubSeq, Head, Tail  *)
(* and \o on them).  The one non-ASCII character of the scenarios, the em  *)
(* dash, is written "~": like the em dash it is no word character, no      *)
(* white space, and occurs in no keyword and in no character class of the  *)
(* regular expressions.                                                    *)
(***************************************************************************)
EXTENDS Integers, Sequences, FiniteSets, TLC

(***************************************************************************)
(* Strings                                                                 *)
(***************************************************************************)
Char(t, i) == SubSeq(t, i, i)

\* Python: t[a-1:b]
Slice(t, a, b) ==
    IF a > b \/ a > Len(t) THEN ""
    ELSE SubSeq(t, a, IF b > Len(t) THEN Len(t) ELSE b)

\* Python: p in t
Contains(t, p) ==
    \E i \in 1..(Len(t) - Len(p) + 1) : SubSeq(t, i, i + Len(p) - 1) = p

\* Python: t.find(p) + 1, 0 when p does not occur in t
Find(t, p) ==
    LET S == {i \in 1..(Len(t) - Len(p) + 1) : SubSeq(t, i, i + Len(p) - 1) = p}
    IN  IF S = {} THEN 0 ELSE CHOOSE i \in S : \A j \in S : i <= j

UPPER  == "ABCDEFGHIJKLMNOPQRSTUVWXYZ"
LOWER  == "abcdefghijklmnopqrstuvwxyz"
DIGIT  == "0123456789"
SPACE  == " \t\n\r\f"
ALPHA  == UPPER \o LOWER
WORD   == ALPHA \o DIGIT \o "_"

RECURSIVE lower(_)
\* Python: str.lower
lower(t) ==
    IF Len(t) <= 1
    THEN IF Contains(UPPER, t) /\ t # "" THEN Char(LOWER, Find(UPPER, t)) ELSE t
    ELSE LET h == Len(t) \div 2
         IN  lower(SubSeq(t, 1, h)) \o lower(SubSeq(t, h + 1, Len(t)))

\* Python: str.strip
strip(t) ==
    LET S == {i \in 1..Len(t) : ~Contains(SPACE, Char(t, i))}
    IN  IF S = {} THEN ""
        ELSE SubSeq(t, CHOOSE i \in S : \A j \in S : i <= j,
                       CHOOSE i \in S : \A j \in S : i >= j)

RECURSIVE split(_, _)
\* Python: t.split(sep), a non-empty sequence of strings
split(t, sep) ==
    LET i == Find(t, sep)
    IN  IF i = 0 THEN <<t>>
        ELSE <<SubSeq(t, 1, i - 1)>>
             \o split(SubSeq(t, i + Len(sep), Len(t)), sep)

\* Python: t.startswith(p)
startswith(t, p) == Len(p) <= Len(t) /\ SubSeq(t, 1, Len(p)) = p

(***************************************************************************)
(* Regular expressions of the module re: backtracking matching.  A         *)
(* pattern is a tree; MatchEnds gives the positions at which a match that  *)
(* starts at position i can end, in the order in which the backtracking    *)
(* matcher tries them, so that its head is the match re takes.             *)
(***************************************************************************)
Lit(s)          == [k |-> "lit", s |-> s]
Set(s)          == [k |-> "set", s |-> s]
NotSet(s)       == [k |-> "nset", s |-> s]
WordB           == [k |-> "wb"]
Cat(items)      == [k |-> "cat", items |-> items]
Alt(items)      == [k |-> "alt", items |-> items]
Rep(item, a, b) == [k |-> "rep", item |-> item, min |-> a, max |-> b]
\* max < 0: no upper limit
Plus(item)      == Rep(item, 1, -1)
Opt(item)       == Rep(item, 0, 1)

IsWordAt(t, i) == i >= 1 /\ i <= Len(t) /\ Contains(WORD, Char(t, i))
\* \b between position i-1 and i
IsBoundary(t, i) == IsWordAt(t, i - 1) # IsWordAt(t, i)

\* s without the later occurrences of its elements
Dedupe(s) ==
    LET keep == {n \in 1..Len(s) : \A m \in 1..(n - 1) : s[m] # s[n]}
        Nth(k) == CHOOSE n \in keep : Cardinality({m \in keep : m < n}) = k - 1
    IN  [k \in 1..Cardinality(keep) |-> s[Nth(k)]]

RECURSIVE Flatten(_, _, _)
\* f[lo] \o ... \o f[hi]
Flatten(f, lo, hi) ==
    IF lo > hi THEN <<>>
    ELSE IF lo = hi THEN f[lo]
    ELSE LET mid == (lo + hi) \div 2
         IN  Flatten(f, lo, mid) \o Flatten(f, mid + 1, hi)

RECURSIVE MatchEnds(_, _, _)
RECURSIVE CatEnds(_, _, _, _)
RECURSIVE RepEnds(_, _, _, _)

MatchEnds(r, t, i) ==
    CASE r.k = "lit"  -> IF i + Len(r.s) - 1 <= Len(t)
                            /\ SubSeq(t, i, i + Len(r.s) - 1) = r.s
                         THEN <<i + Len(r.s)>> ELSE <<>>
      [] r.k = "set"  -> IF i <= Len(t) /\ Contains(r.s, Char(t, i))
                         THEN <<i + 1>> ELSE <<>>
      [] r.k = "nset" -> IF i <= Len(t) /\ ~Contains(r.s, Char(t, i))
                         THEN <<i + 1>> ELSE <<>>
      [] r.k = "wb"   -> IF IsBoundary(t, i) THEN <<i>> ELSE <<>>
      [] r.k = "cat"  -> CatEnds(r.items, 1, t, <<i>>)
      [] r.k = "alt"  ->
            Dedupe(Flatten([j \in 1..Len(r.items) |-> MatchEnds(r.items[j], t, i)],
                           1, Len(r.items)))
      [] r.k = "rep"  ->
            IF r.item.k \in {"set", "nset"}
            THEN \* the run of matching characters from i, longest first
                 LET stop == {j \in i..Len(t) : MatchEnds(r.item, t, j) = <<>>}
                     run  == IF stop = {} THEN Len(t) + 1 - i
                             ELSE (CHOOSE j \in stop : \A m \in stop : j <= m) - i
                     most == IF r.max < 0 \/ run < r.max THEN run ELSE r.max
                 IN  IF most < r.min THEN <<>>
                     ELSE [n \in 1..(most - r.min + 1) |-> i + most + 1 - n]
            ELSE RepEnds(r, t, i, 0)

\* the items from the j-th on, started at each of the positions of starts
CatEnds(items, j, t, starts) ==
    IF j > Len(items) \/ starts = <<>> THEN starts
    ELSE CatEnds(items, j + 1, t,
             Dedupe(Flatten([n \in 1..Len(starts) |->
                                MatchEnds(items[j], t, starts[n])],
                            1, Len(starts))))

\* greedy: one more item first, then stop here
RepEnds(r, t, i, n) ==
    LET ends == IF r.max < 0 \/ n < r.max THEN MatchEnds(r.item, t, i) ELSE <<>>
        more == Flatten([m \in 1..Len(ends) |->
                            IF ends[m] > i THEN RepEnds(r, t, ends[m], n + 1)
                            ELSE <<>>],
                        1, Len(ends))
        here == IF n >= r.min THEN <<i>> ELSE <<>>
    IN  Dedupe(more \o here)

\* the end of the match re takes at position i, 0 when there is none
MatchAt(r, t, i) ==
    LET e == MatchEnds(r, t, i) IN IF e = <<>> THEN 0 ELSE Head(e)

\* Python: re.search(r, t) is not None
re_search(r, t) == \E i \in 1..(Len(t) + 1) : MatchAt(r, t, i) # 0

RECURSIVE SubFrom(_, _, _, _)
\* from position i: up to the leftmost match, its replacement, and on
SubFrom(r, repl, t, i) ==
    LET S == {j \in i..Len(t) : MatchAt(r, t, j) > j}
    IN  IF S = {} THEN SubSeq(t, i, Len(t))
        ELSE LET j == CHOOSE m \in S : \A n \in S : m <= n
             IN  SubSeq(t, i, j - 1) \o repl \o SubFrom(r, repl, t, MatchAt(r, t, j))

\* Python: re.sub(r, repl, t), for patterns that match no empty string
re_sub(r, repl, t) == SubFrom(r, repl, t, 1)

(***************************************************************************)
(* EmailClassifier.redact_pii                                              *)
(***************************************************************************)
DigitsTo(a, b) == Rep(Set(DIGIT), a, b)

\* r'\b[A-Za-z0-9._%+-]+@[A-Za-z0-9.-]+\.[A-Z|a-z]{2,}\b'
EmailPattern ==
    Cat(<<WordB, Plus(Set(ALPHA \o DIGIT \o "._%+-")), Lit("@"),
          Plus(Set(ALPHA \o DIGIT \o ".-")), Lit("."),
          Rep(Set(ALPHA \o "|"), 2, -1), WordB>>)

phone_patterns ==
    <<\* r'\b\d{3}[-.]?\d{3}[-.]?\d{4}\b'
      Cat(<<WordB, DigitsTo(3, 3), Opt(Set("-.")), DigitsTo(3, 3), Opt(Set("-.")),
            DigitsTo(4, 4), WordB>>),
      \* r'\b\(\d{3}\)\s?\d{3}[-.]?\d{4}\b'
      Cat(<<WordB, Lit("("), DigitsTo(3, 3), Lit(")"), Opt(Set(SPACE)), DigitsTo(3, 3),
            Opt(Set("-.")), DigitsTo(4, 4), WordB>>),
      \* r'\b\+\d{1,3}[-.\s]?\d{3,4}[-.\s]?\d{3,4}[-.\s]?\d{3,4}\b'
      Cat(<<WordB, Lit("+"), DigitsTo(1, 3), Opt(Set("-." \o SPACE)),
            DigitsTo(3, 4), Opt(Set("-." \o SPACE)), DigitsTo(3, 4),
            Opt(Set("-." \o SPACE)), DigitsTo(3, 4), WordB>>)>>

\* r'http[s]?://(?:[a-zA-Z]|[0-9]|[$-_@.&+]|[!*\\(\\),]|(?:%[0-9a-fA-F][0-9a-fA-F]))+'
UrlPattern ==
    Cat(<<Lit("http"), Opt(Set("s")), Lit("://"),
          Plus(Alt(<<Set(ALPHA), Set(DIGIT),
                     \* [$-_@.&+]: the range from $ to _, and @ . & +
                     Set("$%&'()*+,-./" \o DIGIT \o ":;<=>?@" \o UPPER
                         \o "[\\]^_" \o "@.&+"),
                     Set("!*\\(\\),"),
                     Cat(<<Lit("%"), Set(DIGIT \o "abcdefABCDEF"),
                           Set(DIGIT \o "abcdefABCDEF")>>)>>))>>)

\* r'\b\d{4}[-\s]?\d{4}[-\s]?\d{4}[-\s]?\d{4}\b'
CardPattern ==
    Cat(<<WordB, DigitsTo(4, 4), Opt(Set("-" \o SPACE)), DigitsTo(4, 4),
          Opt(Set("-" \o SPACE)), DigitsTo(4, 4), Opt(Set("-" \o SPACE)),
          DigitsTo(4, 4), WordB>>)

\* r'\b\d{3}-\d{2}-\d{4}\b'
SsnPattern ==
    Cat(<<WordB, DigitsTo(3, 3), Lit("-"), DigitsTo(2, 2), Lit("-"), DigitsTo(4, 4), WordB>>)

\* r'\b(Mr|Mrs|Ms|Dr|Prof)\.?\s+[A-Z][a-z]+(?:\s+[A-Z][a-z]+)?\b'
NamePattern ==
    Cat(<<WordB,
          Alt(<<Lit("Mr"), Lit("Mrs"), Lit("Ms"), Lit("Dr"), Lit("Prof")>>),
          Opt(Lit(".")), Plus(Set(SPACE)), Set(UPPER), Plus(Set(LOWER)),
          Opt(Cat(<<Plus(Set(SPACE)), Set(UPPER), Plus(Set(LOWER))>>)),
          WordB>>)

\* r'\b\d+\s+[A-Za-z\s]+(?:Street|St|Avenue|Ave|Road|Rd|Boulevard|Blvd|Drive|Dr|Lane|Ln)\b'
AddressPattern ==
    Cat(<<WordB, Plus(Set(DIGIT)), Plus(Set(SPACE)), Plus(Set(ALPHA \o SPACE)),
          Alt(<<Lit("Street"), Lit("St"), Lit("Avenue"), Lit("Ave"),
                Lit("Road"), Lit("Rd"), Lit("Boulevard"), Lit("Blvd"),
                Lit("Drive"), Lit("Dr"), Lit("Lane"), Lit("Ln")>>),
          WordB>>)

\* the phone patterns applied before the e-mail pattern
RedactionsPhoneFirst ==
    <<[pattern |-> phone_patterns[1], token |-> "[PHONE]"],
      [pattern |-> phone_patterns[2], token |-> "[PHONE]"],
      [pattern |-> phone_patterns[3], token |-> "[PHONE]"],
      [pattern |-> EmailPattern,   token |-> "[EMAIL]"],
      [pattern |-> UrlPattern,     token |-> "[URL]"],
      [pattern |-> CardPattern,    token |-> "[CARD]"],
      [pattern |-> SsnPattern,     token |-> "[SSN]"],
      [pattern |-> NamePattern,    token |-> "[NAME]"],
      [pattern |-> AddressPattern, token |-> "[ADDRESS]"]>>

\* the substitutions of redact_pii, in its order
Redactions ==
    <<[pattern |-> EmailPattern,   token |-> "[EMAIL]"],
      [pattern |-> phone_patterns[1], token |-> "[PHONE]"],
      [pattern |-> phone_patterns[2], token |-> "[PHONE]"],
      [pattern |-> phone_patterns[3], token |-> "[PHONE]"],
      [pattern |-> UrlPattern,     token |-> "[URL]"],
      [pattern |-> CardPattern,    token |-> "[CARD]"],
      [pattern |-> SsnPattern,     token |-> "[SSN]"],
      [pattern |-> NamePattern,    token |-> "[NAME]"],
      [pattern |-> AddressPattern, token |-> "[ADDRESS]"]>>

RECURSIVE ApplyRedactions(_, _)
ApplyRedactions(text, j) ==
    IF j > Len(Redactions) THEN text
    ELSE ApplyRedactions(
             re_sub(Redactions[j].pattern, Redactions[j].token, text), j + 1)

redact_pii(text) == IF text = "" THEN "" ELSE ApplyRedactions(text, 1)

(***************************************************************************)
(* EmailClassifier.extract_keywords                                        *)
(***************************************************************************)
action_words ==
  <<"review", "approve", "submit", "send", "update", "complete",
    "schedule", "confirm", "cancel", "reschedule", "follow-up",
    "discuss", "decide", "implement", "prepare", "deliver">>

all_keywords ==
    <<[category |-> "urgency",
       keywords |->
         <<"urgent", "asap", "immediate", "emergency", "critical", "deadline",
         "rush", "priority", "time-sensitive", "expedite">>],
      [category |-> "financial",
       keywords |->
         <<"invoice", "payment", "bill", "receipt", "refund", "transaction",
         "purchase", "order", "subscription", "charge", "fee", "cost",
         "price", "amount", "total", "balance", "account">>],
      [category |-> "meeting",
       keywords |->
         <<"meeting", "call", "appointment", "schedule", "calendar",
         "conference", "zoom", "teams", "webinar", "discussion">>],
      [category |-> "work",
       keywords |->
         <<"project", "task", "deliverable", "milestone", "report",
         "presentation", "document", "proposal", "contract", "agreement">>],
      [category |-> "personal",
       keywords |->
         <<"family", "friend", "personal", "vacation", "holiday", "birthday",
         "anniversary", "celebration", "party">>],
      [category |-> "support",
       keywords |->
         <<"support", "help", "issue", "problem", "error", "bug", "ticket",
         "question", "inquiry", "assistance">>]>>

Words(ws) == Alt([n \in 1..Len(ws) |-> Lit(ws[n])])

time_patterns ==
    <<\* r'\b(today|tomorrow|yesterday)\b'
      Cat(<<WordB, Words(<<"today", "tomorrow", "yesterday">>), WordB>>),
      \* r'\b(monday|tuesday|wednesday|thursday|friday|saturday|sunday)\b'
      Cat(<<WordB, Words(<<"monday", "tuesday", "wednesday", "thursday",
                           "friday", "saturday", "sunday">>), WordB>>),
      \* r'\b(january|february|...|december)\b'
      Cat(<<WordB, Words(<<"january", "february", "march", "april", "may",
                           "june", "july", "august", "september", "october",
                           "november", "december">>), WordB>>),
      \* r'\b\d{1,2}:\d{2}\s?(am|pm)?\b'
      Cat(<<WordB, DigitsTo(1, 2), Lit(":"), DigitsTo(2, 2), Opt(Set(SPACE)),
            Opt(Words(<<"am", "pm">>)), WordB>>),
      \* r'\b\d{1,2}/\d{1,2}/\d{2,4}\b'
      Cat(<<WordB, DigitsTo(1, 2), Lit("/"), DigitsTo(1, 2), Lit("/"),
            DigitsTo(2, 4), WordB>>)>>

\* lines 86-87: tags removed, white space collapsed and stripped
CleanText(text) ==
    strip(re_sub(Plus(Set(SPACE)), " ",
                 re_sub(Cat(<<Lit("<"), Plus(NotSet(">")), Lit(">")>>), "", text)))

\* found_keywords of lines 134-169, as a set, from the cleaned text and
\* its lower case
FoundIn(clean, text_lower) ==
    UNION {{all_keywords[c].category \o ":" \o all_keywords[c].keywords[n] :
               n \in {n \in 1..Len(all_keywords[c].keywords) :
                         Contains(text_lower, all_keywords[c].keywords[n])}} :
           c \in 1..Len(all_keywords)}
    \cup {"action:" \o action_words[n] :
             n \in {n \in 1..Len(action_words) :
                       Contains(text_lower, action_words[n])}}
    \cup (IF Contains(clean, "?")
             \/ \E q \in {"what", "when", "where", "who", "why", "how"} :
                   Contains(text_lower, q)
          THEN {"type:question"} ELSE {})
    \cup (IF \E n \in 1..Len(time_patterns) :
                re_search(time_patterns[n], text_lower)
          THEN {"has_time_reference"} ELSE {})

FoundClean(clean) == FoundIn(clean, lower(clean))

RECURSIVE ListOf(_)
\* list(set): the elements once each, in an order the program does not fix
ListOf(S) ==
    IF S = {} THEN <<>>
    ELSE LET e == CHOOSE e \in S : TRUE IN <<e>> \o ListOf(S \ {e})

extract_keywords(text) ==
    IF text = "" THEN <<>> ELSE ListOf(FoundClean(CleanText(text)))

(***************************************************************************)
(* Python values: records tagged with their type.  The items of a dict    *)
(* are a function from its keys, those of a list a sequence.  A number is  *)
(* n / 10^d.                                                               *)
(***************************************************************************)
None       == [t |-> "NoneType"]
Str(s)     == [t |-> "str", s |-> s]
Num(n, d)  == [t |-> "float", n |-> n, d |-> d]
PyInt(n)   == [t |-> "int", n |-> n, d |-> 0]
Bool(b)    == [t |-> "bool", b |-> b]
List(xs)   == [t |-> "list", items |-> xs]
Dict(f)    == [t |-> "dict", items |-> f]
\* float('-inf')
NegInf     == [t |-> "float", special |-> "-inf"]

IsNumber(v) == v.t \in {"int", "float"} /\ "n" \in DOMAIN v

RECURSIVE Pow10(_)
Pow10(k) == IF k <= 0 THEN 1 ELSE 10 * Pow10(k - 1)

\* a >= b, for numbers
NumGE(a, b) == a.n * Pow10(b.d) >= b.n * Pow10(a.d)

\* the items of a dict after d[k] = v
SetItem(f, k, v) == [y \in DOMAIN f \cup {k} |-> IF y = k THEN v ELSE f[y]]

(***************************************************************************)
(* EmailClassifier.classify_locally                                        *)
(***************************************************************************)
Range(seq) == {seq[n] : n \in 1..Len(seq)}

\* kw.split(':')[-1] if ':' in kw else kw
LastPart(kw) == LET parts == split(kw, ":") IN parts[Len(parts)]

\* kw.split(':')[0]
FirstPart(kw) == split(kw, ":")[1]

spam_indicators ==
    {"urgent", "limited time", "act now", "free", "winner", "congratulations",
     "claim", "prize", "offer", "discount", "sale", "deal"}

financial_indicators ==
    {"invoice", "payment", "bill", "receipt", "transaction", "refund"}

meeting_indicators ==
    {"meeting", "call", "appointment", "schedule", "calendar", "conference"}

support_indicators ==
    {"support", "help", "issue", "problem", "error", "bug", "ticket"}

work_indicators ==
    {"project", "task", "deliverable", "milestone", "report", "proposal"}

personal_indicators ==
    {"family", "friend", "personal", "vacation", "birthday", "party"}

\* any(w in text for w in words)
AnyIn(words, text) == \E n \in 1..Len(words) : Contains(text, words[n])

Classification(category, priority, confidence, reasoning) ==
    Dict([category   |-> Str(category),
          priority   |-> Str(priority),
          confidence |-> confidence,
          reasoning  |-> Str(reasoning)])

\* lines 182-183: the keywords without their tags
keyword_set(keywords) == {LastPart(keywords[n]) : n \in 1..Len(keywords)}

\* 1. Spam/Promotional detection
\* one spam indicator is enough
SpamRuleSingle(keywords) ==
    Cardinality(keyword_set(keywords) \cap spam_indicators) >= 1

SpamRule(keywords) ==
    Cardinality(keyword_set(keywords) \cap spam_indicators) >= 2

SpamResult ==
    Classification("spam", "low", Num(9, 1), "Multiple spam indicators detected")

\* 2. Financial/Billing emails
FinancialRule(keywords) == keyword_set(keywords) \cap financial_indicators # {}

FinancialResult(keywords) ==
    Classification("financial",
                   IF "urgent" \in keyword_set(keywords) THEN "high" ELSE "medium",
                   Num(85, 2),
                   "Financial keywords detected")

\* 3. Meeting/Calendar emails
MeetingRule(keywords) == keyword_set(keywords) \cap meeting_indicators # {}

MeetingResult(keywords) ==
    Classification("meetings",
                   IF \E kw \in {"urgency:", "has_time_reference"} :
                         kw \in Range(keywords)
                   THEN "high" ELSE "medium",
                   Num(8, 1), "Meeting/calendar keywords detected")

\* 4. Support/Technical emails
SupportRule(keywords) == keyword_set(keywords) \cap support_indicators # {}

SupportResult(keywords) ==
    Classification("support",
                   IF "urgent" \in keyword_set(keywords) THEN "high" ELSE "medium",
                   Num(8, 1),
                   "Support/technical keywords detected")

\* 5. Work/Project emails
WorkRule(keywords) == keyword_set(keywords) \cap work_indicators # {}

\* a work result below the threshold of classify_email
WorkResultUnsure(keywords) ==
    Classification("work", "medium", Num(65, 2), "Work/project keywords detected")

WorkResult(keywords) ==
    Classification("work",
                   IF "urgency:" \in {FirstPart(kw) :
                          kw \in {k \in Range(keywords) : Contains(k, ":")}}
                   THEN "high" ELSE "medium",
                   Num(75, 2), "Work/project keywords detected")

\* 6. Personal emails
PersonalRule(keywords) == keyword_set(keywords) \cap personal_indicators # {}

\* a confidence computed from the rule's weight instead of the literal
PersonalResultComputed ==
    Classification("personal", "low", Num(65, 2), "Personal keywords detected")

PersonalResult ==
    Classification("personal", "low", Num(7, 1), "Personal keywords detected")

\* 7. Sender-based rules
SenderRule(sender) == AnyIn(<<"noreply", "no-reply", "notification", "support">>, lower(sender))

SenderResult(keywords) ==
    IF keyword_set(keywords) \cap financial_indicators # {}
    THEN Classification("financial", "medium", Num(8, 1),
                        "Service notification with financial content")
    ELSE Classification("notifications", "low", Num(75, 2),
                        "Automated service notification")

\* 8. Subject-based high-confidence rules
PromotionalRule(subject) == AnyIn(<<"unsubscribe", "newsletter", "promotion">>, lower(subject))

PromotionalResult ==
    Classification("promotional", "low", Num(85, 2),
                   "Promotional content in subject")

UrgentRule(subject) == AnyIn(<<"urgent", "asap", "immediate">>, lower(subject))

UrgentResult ==
    Classification("urgent", "high", Num(8, 1), "Urgent markers in subject")

\* 9. Action-required emails: action_keywords are the places of the
\* keywords kw with kw.startswith('action:')
ActionRule(keywords) ==
    \/ Cardinality({n \in 1..Len(keywords) :
                       startswith(keywords[n], "action:")}) >= 2
    \/ "type:question" \in Range(keywords)

ActionResult ==
    Classification("action_required", "medium", Num(75, 2),
                   "Multiple action items or questions detected")

classify_locally(keywords, sender, subject) ==
    IF keywords = <<>> THEN None
    ELSE IF SpamRule(keywords) THEN SpamResult
    ELSE IF FinancialRule(keywords) THEN FinancialResult(keywords)
    ELSE IF MeetingRule(keywords) THEN MeetingResult(keywords)
    ELSE IF SupportRule(keywords) THEN SupportResult(keywords)
    ELSE IF WorkRule(keywords) THEN WorkResult(keywords)
    ELSE IF PersonalRule(keywords) THEN PersonalResult
    ELSE IF SenderRule(sender) THEN SenderResult(keywords)
    ELSE IF PromotionalRule(subject) THEN PromotionalResult
    ELSE IF UrgentRule(subject) THEN UrgentResult
    ELSE IF ActionRule(keywords) THEN ActionResult
    ELSE None

(***************************************************************************)
(* json.loads, on the documents that hold no \u and no \b escape.          *)
(* A parse gives [ok |-> TRUE, v |-> value, next |-> position after it]    *)
(* or [ok |-> FALSE] (json.JSONDecodeError).                               *)
(***************************************************************************)
Failed  == [ok |-> FALSE]
Parsed(v, next) == [ok |-> TRUE, v |-> v, next |-> next]

\* the first position from i on that holds no JSON white space
SkipWs(t, i) ==
    LET S == {j \in i..Len(t) : ~Contains(" \t\n\r", Char(t, j))}
    IN  IF S = {} THEN Len(t) + 1 ELSE CHOOSE j \in S : \A m \in S : j <= m

RECURSIVE DigitsValue(_)
DigitsValue(ds) ==
    IF ds = "" THEN 0
    ELSE 10 * DigitsValue(SubSeq(ds, 1, Len(ds) - 1))
         + (Find(DIGIT, Char(ds, Len(ds))) - 1)

\* json.scanner NUMBER_RE: (-?(?:0|[1-9]\d*))(\.\d+)?([eE][-+]?\d+)?
NUMBER_RE ==
    Cat(<<Opt(Lit("-")),
          Alt(<<Lit("0"), Cat(<<Set("123456789"), Rep(Set(DIGIT), 0, -1)>>)>>),
          Opt(Cat(<<Lit("."), Plus(Set(DIGIT))>>)),
          Opt(Cat(<<Set("eE"), Opt(Set("-+")), Plus(Set(DIGIT))>>))>>)

\* the value of a run of digits with or without a sign
Signed(ds) ==
    IF ds # "" /\ Head(ds) = "-" THEN 0 - DigitsValue(Tail(ds))
    ELSE IF ds # "" /\ Head(ds) = "+" THEN DigitsValue(Tail(ds))
    ELSE DigitsValue(ds)

\* int(integer) when there is neither fraction nor exponent, else
\* float(integer + '.' + frac + 'e' + exp)
NumberOf(integer, frac, exp, next) ==
    IF frac = "" /\ exp = "" THEN Parsed(PyInt(Signed(integer)), next)
    ELSE IF Len(frac) >= Signed(exp)
    THEN Parsed(Num(Signed(integer \o frac), Len(frac) - Signed(exp)), next)
    ELSE Parsed(Num(Signed(integer \o frac) * Pow10(Signed(exp) - Len(frac)), 0),
                next)

\* the number whose text is mantissa, with exponent exp
NumberText(mantissa, exp, next) ==
    NumberOf(split(mantissa, ".")[1],
             IF Contains(mantissa, ".") THEN split(mantissa, ".")[2] ELSE "",
             exp, next)

\* the number that ends before position e, none when e = 0
NumberTo(t, i, e) ==
    IF e = 0 THEN Failed
    ELSE NumberText(split(lower(SubSeq(t, i, e - 1)), "e")[1],
                    IF Contains(lower(SubSeq(t, i, e - 1)), "e")
                    THEN split(lower(SubSeq(t, i, e - 1)), "e")[2] ELSE "",
                    e)

ParseNumber(t, i) == NumberTo(t, i, MatchAt(NUMBER_RE, t, i))

\* the character the escape \e stands for
Unescape(e) ==
    CASE e = "f" -> "\f" [] e = "n" -> "\n" [] e = "r" -> "\r" [] e = "t" -> "\t"
      [] OTHER -> e

\* the first position from i on of a quote, a backslash or a control
\* character, 0 when there is none
NextSpecial(t, i) ==
    LET S == {j \in i..Len(t) : Char(t, j) \in {"\"", "\\"}
                                \/ Contains("\t\n\r\f", Char(t, j))}
    IN  IF S = {} THEN 0 ELSE CHOOSE m \in S : \A n \in S : m <= n

\* the string that starts with prefix and goes on as rest
Escaped(prefix, rest) ==
    IF rest.ok THEN Parsed(prefix \o rest.v, rest.next) ELSE Failed

RECURSIVE ScanString(_, _)

ScanFrom(t, i, j) ==
    IF j = 0 THEN Failed
    ELSE IF Char(t, j) = "\"" THEN Parsed(SubSeq(t, i, j - 1), j + 1)
    ELSE IF Char(t, j) # "\\" \/ j = Len(t) THEN Failed
    ELSE IF ~Contains("\"\\/fnrt", Char(t, j + 1)) THEN Failed
    ELSE Escaped(SubSeq(t, i, j - 1) \o Unescape(Char(t, j + 1)),
                 ScanString(t, j + 2))

\* json.decoder.scanstring (strict) from position i, after the opening quote
ScanString(t, i) == ScanFrom(t, i, NextSpecial(t, i))

Literals ==
    <<[text |-> "null", v |-> None], [text |-> "true", v |-> Bool(TRUE)],
      [text |-> "false", v |-> Bool(FALSE)], [text |-> "NaN", v |-> [t |-> "float", special |-> "nan"]],
      [text |-> "Infinity", v |-> [t |-> "float", special |-> "inf"]], [text |-> "-Infinity", v |-> NegInf]>>

\* the literals that stand at position i
LiteralsAt(t, i) ==
    {n \in 1..Len(Literals) :
        Slice(t, i, i + Len(Literals[n].text) - 1) = Literals[n].text}

LiteralValue(n, i) == Parsed(Literals[n].v, i + Len(Literals[n].text))

StringValue(r) == IF r.ok THEN Parsed(Str(r.v), r.next) ELSE Failed

RECURSIVE ParseValue(_, _)
RECURSIVE ParseMembers(_, _, _)
RECURSIVE ParseItems(_, _, _)

\* after a pair, at position j: the end of the object or one more pair
MoreMembers(t, g, j) ==
    IF j > Len(t) THEN Failed
    ELSE IF Char(t, j) = "}" THEN Parsed(Dict(g), j + 1)
    ELSE IF Char(t, j) = "," THEN ParseMembers(t, SkipWs(t, j + 1), g)
    ELSE Failed

AfterMember(t, f, k, val) ==
    IF ~val.ok THEN Failed
    ELSE MoreMembers(t, SetItem(f, k, val.v), SkipWs(t, val.next))

AfterColon(t, f, k, colon) ==
    IF colon > Len(t) \/ Char(t, colon) # ":" THEN Failed
    ELSE AfterMember(t, f, k, ParseValue(t, SkipWs(t, colon + 1)))

AfterKey(t, f, key) ==
    IF ~key.ok THEN Failed ELSE AfterColon(t, f, key.v, SkipWs(t, key.next))

\* json.decoder.JSONObject: the pairs from position i on, after those in f
ParseMembers(t, i, f) ==
    IF i > Len(t) \/ Char(t, i) # "\"" THEN Failed
    ELSE AfterKey(t, f, ScanString(t, i + 1))

ObjectAt(t, j) ==
    IF j <= Len(t) /\ Char(t, j) = "}" THEN Parsed(Dict(<<>>), j + 1)
    ELSE ParseMembers(t, j, <<>>)

\* after a value, at position j: the end of the array or one more value
MoreItems(t, ys, j) ==
    IF j > Len(t) THEN Failed
    ELSE IF Char(t, j) = "]" THEN Parsed(List(ys), j + 1)
    ELSE IF Char(t, j) = "," THEN ParseItems(t, SkipWs(t, j + 1), ys)
    ELSE Failed

AfterItem(t, xs, val) ==
    IF ~val.ok THEN Failed
    ELSE MoreItems(t, Append(xs, val.v), SkipWs(t, val.next))

\* json.decoder.JSONArray: the values from position i on, after those in xs
ParseItems(t, i, xs) == AfterItem(t, xs, ParseValue(t, i))

ArrayAt(t, j) ==
    IF j <= Len(t) /\ Char(t, j) = "]" THEN Parsed(List(<<>>), j + 1)
    ELSE ParseItems(t, j, <<>>)

\* json.scanner.py_make_scanner._scan_once at position i
ParseValue(t, i) ==
    IF i > Len(t) THEN Failed
    ELSE IF Char(t, i) = "\"" THEN StringValue(ScanString(t, i + 1))
    ELSE IF Char(t, i) = "{" THEN ObjectAt(t, SkipWs(t, i + 1))
    ELSE IF Char(t, i) = "[" THEN ArrayAt(t, SkipWs(t, i + 1))
    ELSE IF LiteralsAt(t, i) # {}
    THEN LiteralValue(CHOOSE n \in LiteralsAt(t, i) : TRUE, i)
    ELSE ParseNumber(t, i)

\* the value, when only white space follows it
Whole(t, r) == IF r.ok /\ SkipWs(t, r.next) = Len(t) + 1 THEN r ELSE Failed

\* json.loads(t): the value, or Failed for json.JSONDecodeError
json_loads(t) == Whole(t, ParseValue(t, SkipWs(t, 1)))

(***************************************************************************)
(* EmailClassifier.classify_with_openai                                    *)
(***************************************************************************)
PromptChars    == 1000
PromptKeywords == 10

RECURSIVE Join(_, _)
\* Python: sep.join(xs)
Join(xs, sep) ==
    IF xs = <<>> THEN ""
    ELSE IF Len(xs) = 1 THEN xs[1]
    ELSE xs[1] \o sep \o Join(Tail(xs), sep)

\* what the prompt of lines 314-346 takes from the arguments
Prompt(redacted_content, keywords) ==
    [content         |-> Slice(redacted_content, 1, PromptChars),
     keyword_summary |->
         Join(SubSeq(keywords, 1, IF Len(keywords) < PromptKeywords
                                  THEN Len(keywords) ELSE PromptKeywords), ", ")]

required_fields == <<"category", "priority", "confidence", "reasoning">>

\* lines 379-386
ParseFallback(cause) ==
    Classification("other", "medium", Num(3, 1),
                   "OpenAI response parsing failed: " \o cause)

\* the failure of the call answered with the fallback of a reply that does
\* not parse
FailureFallbackAsParse(cause) ==
    Classification("other", "medium", Num(3, 1),
                   "OpenAI classification failed: " \o cause)

\* lines 388-395
FailureFallback(cause) ==
    Classification("other", "medium", Num(2, 1),
                   "OpenAI classification failed: " \o cause)

\* the Markdown fence of three backquotes; a TLA+ string cannot hold a
\* backquote, and "^", which the JSON grammar does not use, stands for it
FENCE == "^^^"

\* lines 365-368
StripFence(response_text) ==
    IF Contains(response_text, FENCE \o "json")
    THEN split(split(response_text, FENCE \o "json")[2], FENCE)[1]
    ELSE IF Contains(response_text, FENCE)
    THEN split(split(response_text, FENCE)[2], FENCE)[1]
    ELSE response_text

\* the types whose values take the operator in; on the others it raises
\* TypeError
IsContainer(result) == result.t \in {"dict", "list", "str"}

\* field in result, for a container
FieldIn(field, result) ==
    CASE result.t = "dict" -> field \in DOMAIN result.items
      [] result.t = "list" ->
            \E n \in 1..Len(result.items) :
                result.items[n].t = "str" /\ result.items[n].s = field
      [] result.t = "str"  -> Contains(result.s, field)

\* lines 372-386: the loaded value when it holds the required fields
CheckFields(loaded) ==
    IF ~loaded.ok THEN ParseFallback("JSONDecodeError")
    ELSE IF ~IsContainer(loaded.v) THEN FailureFallback("TypeError")
    ELSE IF \A n \in 1..Len(required_fields) :
               FieldIn(required_fields[n], loaded.v)
    THEN loaded.v
    ELSE ParseFallback("Missing required fields in OpenAI response")

\* lines 358-395, from the content of the reply on
ParseResponse(content) ==
    IF content.t # "str" THEN FailureFallback("AttributeError")
    ELSE CheckFields(json_loads(StripFence(strip(content.s))))

\* the awaited call of line 348 ends by raising or with a reply, whose
\* content (response.choices[0].message.content) is a str or None
Raises         == [kind |-> "raise"]
Reply(content) == [kind |-> "reply", content |-> content]

\* the value classify_with_openai returns: it raises nothing
classify_with_openai(redacted_content, keywords, outcome) ==
    IF outcome.kind = "raise" THEN FailureFallback("Exception")
    ELSE ParseResponse(outcome.content)

(***************************************************************************)
(* EmailClassifier.classify_email                                          *)
(***************************************************************************)
full_content(email_data) == email_data.subject \o " " \o email_data.body

Returns(value) == [raised |-> FALSE, value |-> value]
Raise(exc)     == [raised |-> TRUE, exc |-> exc]

\* bool(v), for the values a local result can be
Truthy(v) == v.t # "NoneType" /\ (v.t = "dict" => DOMAIN v.items # {})

\* the threshold taken as exclusive: confidence > 0.7
UseLocalAbove(local_result) ==
    /\ Truthy(local_result)
    /\ ~NumGE(Num(7, 1),
              IF "confidence" \in DOMAIN local_result.items
              THEN local_result.items.confidence ELSE PyInt(0))

\* line 412: local_result and local_result.get('confidence', 0) >= 0.7
UseLocal(local_result) ==
    /\ Truthy(local_result)
    /\ NumGE(IF "confidence" \in DOMAIN local_result.items
             THEN local_result.items.confidence ELSE PyInt(0),
             Num(7, 1))

\* lines 413-415
TagLocal(local_result) ==
    Dict(SetItem(SetItem(local_result.items, "method", Str("local_rules")),
                 "privacy_protected", Bool(TRUE)))

\* confidence + 0.1 raises no TypeError
CanBoost(confidence) == confidence.t \in {"bool", "int", "float"}

\* confidence + 0.1, without the cap
BoostUncapped(confidence) ==
    LET v == IF confidence.t = "bool"
             THEN PyInt(IF confidence.b THEN 1 ELSE 0) ELSE confidence
        d == IF v.d < 1 THEN 1 ELSE v.d
    IN  Num(v.n * Pow10(d - v.d) + Pow10(d - 1), d)

\* min(1.0, confidence + 0.1)
Boost(confidence) ==
    LET v == IF confidence.t = "bool"
             THEN PyInt(IF confidence.b THEN 1 ELSE 0) ELSE confidence
    IN  IF ~IsNumber(v)
        THEN IF v = NegInf THEN v ELSE Num(10, 1)
        ELSE LET d   == IF v.d < 1 THEN 1 ELSE v.d
                 sum == Num(v.n * Pow10(d - v.d) + Pow10(d - 1), d)
             IN  IF NumGE(sum, Num(10, 1)) THEN Num(10, 1) ELSE sum

\* reasoning += ' (confirmed by local rules)' raises no TypeError
CanConfirm(reasoning) == reasoning.t \in {"str", "list"}

\* reasoning after reasoning += ' (confirmed by local rules)'
Confirm(reasoning) ==
    LET suffix == " (confirmed by local rules)"
    IN  IF reasoning.t = "str" THEN Str(reasoning.s \o suffix)
        ELSE List(reasoning.items \o [n \in 1..Len(suffix) |-> Str(Char(suffix, n))])

\* lines 421-432: the outcome of classify_email on the remote path
FinishRemote(local_result, openai_result) ==
    IF openai_result.t # "dict" THEN Raise("TypeError")
    ELSE LET tagged == SetItem(SetItem(openai_result.items, "method",
                                       Str("openai_api")),
                               "privacy_protected", Bool(TRUE))
         IN  IF Truthy(local_result)
                /\ local_result.items.category = tagged.category
             THEN IF ~CanBoost(tagged.confidence) \/ ~CanConfirm(tagged.reasoning)
                  THEN Raise("TypeError")
                  ELSE Returns(Dict(SetItem(SetItem(tagged, "confidence",
                                                    Boost(tagged.confidence)),
                                            "reasoning",
                                            Confirm(tagged.reasoning))))
             ELSE Returns(Dict(tagged))

Call(fn, args) == [fn |-> fn, args |-> args]

\* lines 401-409: the calls classify_email makes first
FirstCalls(email_data, keywords) ==
    <<Call("extract_keywords", <<full_content(email_data)>>),
      Call("classify_locally",
           <<keywords, email_data.sender, email_data.subject>>)>>

\* lines 413-415: the call returns the local result
ReturnLocal(email_data, keywords, local_result) ==
    [keywords |-> keywords, local_result |-> local_result,
     returned |-> TRUE, result |-> Returns(TagLocal(local_result)),
     request |-> None, calls |-> FirstCalls(email_data, keywords)]

\* the remote call given the text as it came in
AwaitRemoteUnredacted(email_data, keywords, local_result, redacted) ==
    [keywords |-> keywords, local_result |-> local_result,
     returned |-> FALSE, result |-> None,
     request |-> Prompt(full_content(email_data), keywords),
     calls |-> <<Call("extract_keywords", <<full_content(email_data)>>),
                 Call("classify_locally",
                      <<keywords, email_data.sender, email_data.subject>>),
                 Call("redact_pii", <<full_content(email_data)>>),
                 Call("classify_with_openai",
                      <<full_content(email_data), keywords>>)>>]

\* lines 418-420: the call is suspended at the await of the remote call
AwaitRemote(email_data, keywords, local_result, redacted) ==
    [keywords |-> keywords, local_result |-> local_result,
     returned |-> FALSE, result |-> None,
     request |-> Prompt(redacted, keywords),
     calls |-> FirstCalls(email_data, keywords) \o
         <<Call("redact_pii", <<full_content(email_data)>>),
           Call("classify_with_openai", <<redacted, keywords>>)>>]

\* line 412 on
AfterLocal(email_data, keywords, local_result) ==
    IF UseLocal(local_result)
    THEN ReturnLocal(email_data, keywords, local_result)
    ELSE AwaitRemote(email_data, keywords, local_result,
                     redact_pii(full_content(email_data)))

\* lines 406-409 on
AfterKeywords(email_data, keywords) ==
    AfterLocal(email_data, keywords,
               classify_locally(keywords, email_data.sender, email_data.subject))

\* lines 401-420, up to the await of the remote call: what the call has
\* computed, the calls it made, and whether it returned
Start(email_data) ==
    AfterKeywords(email_data, extract_keywords(full_content(email_data)))

(***************************************************************************)
(* api/v1/classify.py                                                      *)
(***************************************************************************)
\* the categories of get_categories
categories ==
    {"work", "personal", "financial", "promotional", "support", "meetings",
     "notifications", "action_required", "spam", "other"}

(***************************************************************************)
(* The classifier at work: the module-level instance of api/v1/classify.py *)
(* serves the requests of the event loop; a call is suspended only at the  *)
(* await of the remote call.                                               *)
(***************************************************************************)
Email(subject, body, sender) ==
    [subject |-> subject, body |-> body, sender |-> sender]

\* the e-mails of the requests
Emails ==
    {Email("50% off ~ limited time offer, unsubscribe now", "", ""),
     Email("Urgent: Invoice Payment Required",
           "Your invoice #12345 for $150.00 is overdue. Please pay immediately.",
           "billing@company.com"),
     Email("Hi", "Contact John Doe at john@example.com or 555-123-4567",
           "jane@example.com"),
     Email("", "", ""),
     Email("Birthday party", "See you there", "mom@home.net"),
     Email("Hello", "Nothing new", "noreply@service.com"),
     Email("ASAP", "", "boss@corp.com"),
     Email("Meeting tomorrow", "<p>Room 4 at 3:00 pm</p>", "pa@corp.com"),
     Email("Urgent project report", "", "pm@corp.com"),
     Email("Login error", "Please help", "user@site.org"),
     Email("Quick one", "Who is in?", "bob@site.org"),
     Email("Newsletter", "Emergency edition", "news@no-reply.io"),
     Email("Zoom webinar", "", "events@corp.com"),
     Email("Your order", "Dr. Smith, 12 Main Street", "shop@store.com"),
     Email("Contact", "John Doe at john@example.com or 555-123-4567",
           "jane@example.com"),
     Email("Numbers", "5551234567@txt.net, 5 Oak Dr Smith", "bob@site.org")}

\* the contents of the replies of the remote service
Contents ==
    {None,
     Str("{\"category\": \"work\", \"priority\": \"high\", \"confidence\": 0.9, \"reasoning\": \"A project update\"}"),
     Str("^^^json\n{\"category\": \"spam\", \"priority\": \"low\", \"confidence\": 1, \"reasoning\": \"Bulk mail\"}\n^^^"),
     Str("Here it is:\n^^^\n{\"category\": \"other\", \"priority\": \"low\", \"confidence\": 0.55, \"reasoning\": \"Unclear\"}\n^^^\nDone."),
     Str("{\"category\": \"invoice\", \"priority\": \"urgent\", \"confidence\": 1.5, \"reasoning\": \"A bill\", \"note\": null}"),
     Str("{\"category\": \"personal\", \"priority\": \"low\", \"confidence\": \"high\", \"reasoning\": [\"family\"]}"),
     Str("{\"category\": \"work\", \"priority\": \"high\"}"),
     Str("I think this email is about work."),
     Str("^^^json"),
     Str("42"),
     Str("null"),
     Str("[\"category\", \"priority\", \"confidence\", \"reasoning\"]"),
     Str("[\"category\", \"priority\"]"),
     Str("\"category priority confidence reasoning\""),
     Str("")}

\* f, evaluated on all its domain at once
Table(f) == f @@ <<>>

\* Start and classify_with_openai on the e-mails above, the latter on
\* every outcome of the awaited call
StartOf  == Table([e \in Emails |-> Start(e)])
AnswerOf ==
    Table([e \in Emails |->
              Table([o \in {Raises} \cup {Reply(content) : content \in Contents} |->
                        classify_with_openai(redact_pii(full_content(e)),
                                             StartOf[e].keywords, o)])])

\* the requests served concurrently
Tasks == {"t1", "t2"}

\* the arguments of the direct calls of classify_locally: lists of at most
\* MaxKw keywords, tagged as extract_keywords tags them and untagged
MaxKw == 3

Vocabulary ==
    {"offer", "urgency:urgent", "financial:invoice", "meeting:call",
     "support:help", "work:report", "personal:party", "action:send",
     "type:question", "has_time_reference"}

\* the messages a mailbox lists: at most MaxMessages ids, an id possibly
\* more than once
MaxMessages == 2

VARIABLES
    frame,       \* the frame of the classify_email call of each task
    direct,      \* a direct call of classify_locally
    classifier,  \* the attributes of the instance of classify.py line 12
    emails,      \* the rows of the table emails, in the order of their ids
    ingest       \* the frame of the ingest_emails call of each task

vars == <<frame, direct, classifier, emails, ingest>>

\* EmailClassifier(): the tables __init__ gives the instance
EmailClassifier ==
    [categories  |-> <<"JOB", "OPPORTUNITY", "MARKETING", "PERSONAL", "SPAM",
                       "IMPORTANT">>,
     local_rules |->
         [JOB       |-> <<"job", "position", "role", "hiring", "career",
                          "apply", "interview", "recruit", "vacancy",
                          "employment", "candidate">>,
          MARKETING |-> <<"sale", "discount", "offer", "deal", "promotion",
                          "limited time", "unsubscribe", "newsletter",
                          "marketing", "%", "buy now">>,
          SPAM      |-> <<"click here", "urgent", "act now",
                          "congratulations", "winner", "free money",
                          "nigerian prince", "inheritance">>]]

\* An ingest_emails call: pc is "idle" (no call), "loop" (in the loop of
\* lines 58-103, or before the commit of line 105), "returned" or "failed"
\* (HTTP 400); user_id is user.id; messages are the ids the mailbox
\* listed, n the place of msg in them; pending are the records added to
\* the session and not yet flushed.
NoIngest ==
    [pc |-> "idle", user_id |-> 0, messages |-> <<>>, n |-> 0, pending |-> <<>>]

\* A frame: pc is "idle" (no call), "awaiting" (suspended at line 348),
\* "returned" or "raised"; email_data is the argument; keywords,
\* local_result and openai_result are the local variables; request is what
\* the request in flight holds and reply how the awaited call ended;
\* result is what the call returned or raised; calls are the calls it
\* made, in order.
Idle ==
    [pc |-> "idle", email_data |-> None, keywords |-> <<>>,
     local_result |-> None, request |-> None, reply |-> None,
     openai_result |-> None, result |-> None, calls |-> <<>>]

NoCall ==
    [pc |-> "none", keywords |-> <<>>, sender |-> "", subject |-> "",
     result |-> None]

Init ==
    /\ frame  = [t \in Tasks |-> Idle]
    /\ direct = NoCall
    /\ classifier = EmailClassifier
    /\ emails = <<>>
    /\ ingest = [t \in Tasks |-> NoIngest]

\* the frame of classify_email(e) at its return on the local path, or at
\* the await
Called(e, start) ==
    [pc            |-> IF start.returned THEN "returned" ELSE "awaiting",
     email_data    |-> e,
     keywords      |-> start.keywords,
     local_result  |-> start.local_result,
     request       |-> start.request,
     reply         |-> None,
     openai_result |-> None,
     result        |-> start.result,
     calls         |-> start.calls]

Invoke(t, e) ==
    /\ frame[t].pc = "idle"
    /\ frame' = [frame EXCEPT ![t] = Called(e, StartOf[e])]
    /\ UNCHANGED <<direct, classifier, emails, ingest>>

\* the remote call made once more after a failure of the transport
EndedRetry(f, outcome, openai_result, end) ==
    IF outcome.kind = "raise" /\ f.reply = None
    THEN [f EXCEPT !.reply = outcome]
    ELSE [f EXCEPT !.pc            = IF end.raised THEN "raised" ELSE "returned",
                   !.request       = None,
                   !.reply         = outcome,
                   !.openai_result = openai_result,
                   !.result        = end]

\* the frame f once classify_email has run to its end
Ended(f, outcome, openai_result, end) ==
    [f EXCEPT !.pc            = IF end.raised THEN "raised" ELSE "returned",
              !.request       = None,
              !.reply         = outcome,
              !.openai_result = openai_result,
              !.result        = end]

\* local_result kept on the instance instead of in the frame: the call
\* resumes with the local result of whichever call left one
ResumedShared(f, outcome, openai_result) ==
    Ended(f, outcome, openai_result,
          FinishRemote(IF \A u \in Tasks : frame[u].local_result = None
                       THEN f.local_result
                       ELSE frame[CHOOSE u \in Tasks :
                                      frame[u].local_result # None].local_result,
                       openai_result))

\* the awaited call of frame f ends with outcome, and classify_with_openai
\* returns openai_result
Resumed(f, outcome, openai_result) ==
    Ended(f, outcome, openai_result,
          FinishRemote(f.local_result, openai_result))

\* the remote service replies
RemoteReplies(t) ==
    /\ frame[t].pc = "awaiting"
    /\ \E c \in Contents :
          frame' = [frame EXCEPT ![t] =
                       Resumed(frame[t], Reply(c),
                               AnswerOf[frame[t].email_data][Reply(c)])]
    /\ UNCHANGED <<direct, classifier, emails, ingest>>

\* the remote call fails
RemoteRaises(t) ==
    /\ frame[t].pc = "awaiting"
    /\ frame' = [frame EXCEPT ![t] =
                    Resumed(frame[t], Raises,
                            AnswerOf[frame[t].email_data][Raises])]
    /\ UNCHANGED <<direct, classifier, emails, ingest>>

\* the caller has the outcome: the frame of the call is gone
Finish(t) ==
    /\ frame[t].pc \in {"returned", "raised"}
    /\ frame' = [frame EXCEPT ![t] = Idle]
    /\ UNCHANGED <<direct, classifier, emails, ingest>>

Next ==
    \E t \in Tasks :
        \/ \E e \in Emails : Invoke(t, e)
        \/ RemoteReplies(t)
        \/ RemoteRaises(t)
        \/ Finish(t)

Spec == Init /\ [][Next]_vars

\* classify_locally called on its own, on any keyword list, sender and
\* subject
InitLocal ==
    /\ frame = [t \in Tasks |-> Idle]
    /\ classifier = EmailClassifier
    /\ emails = <<>>
    /\ ingest = [t \in Tasks |-> NoIngest]
    /\ direct \in [pc       : {"called"},
                   keywords : UNION {[1..n -> Vocabulary] : n \in 0..MaxKw},
                   sender   : {"boss@corp.com", "NoReply@service.com"},
                   subject  : {"Hello", "Your Newsletter is URGENT",
                               "Needed ASAP"},
                   result   : {None}]

CallLocally ==
    /\ direct.pc = "called"
    /\ direct' = [direct EXCEPT
                     !.pc = "returned",
                     !.result = classify_locally(direct.keywords, direct.sender,
                                                 direct.subject)]
    /\ UNCHANGED <<frame, classifier, emails, ingest>>

SpecLocal == InitLocal /\ [][CallLocally]_vars

\* Lines 420-432 on their own: a call suspended at the await of line 420
\* whose local_result is any classification below the threshold of line
\* 412, or None.  The rules of classify_locally give no such
\* classification; lines 425-430 are written for one.
LocalResults ==
    {None} \cup
    {Classification(category, "low", confidence, "Low confidence match") :
         category \in {"work", "spam", "other", "personal", "meetings"},
         confidence \in {Num(5, 1), Num(69, 2), PyInt(0)}}

InitMerge ==
    /\ direct = NoCall
    /\ classifier = EmailClassifier
    /\ emails = <<>>
    /\ ingest = [t \in Tasks |-> NoIngest]
    /\ \E t \in Tasks, e \in {m \in Emails : ~StartOf[m].returned},
          low \in LocalResults :
          frame = [[u \in Tasks |-> Idle] EXCEPT
                      ![t] = [Called(e, StartOf[e]) EXCEPT !.local_result = low]]

SpecMerge ==
    InitMerge
    /\ [][\E t \in Tasks : RemoteReplies(t) \/ RemoteRaises(t) \/ Finish(t)]_vars

(***************************************************************************)
(* api/v1/emails.py: ingest_emails.  Each call has a session of its own    *)
(* (db/database.py, get_db); its queries read the rows committed so far,   *)
(* and the records it adds reach the table at the commit of line 105.      *)
(* The calls of one process run one after the other, those of several      *)
(* processes in any order of their queries and commits.  The user of       *)
(* lines 33-46 is taken as found.                                          *)
(***************************************************************************)
\* no column gmail_id unique
NoConstraint(rows) == TRUE

\* models/database.py line 47: gmail_id is unique
UniqueGmailId(rows) ==
    \A j, k \in 1..Len(rows) : rows[j].gmail_id = rows[k].gmail_id => j = k

\* lines 25-56: the call has its user and the list of the messages
IngestCalled(t) ==
    /\ ingest[t].pc = "idle"
    /\ \E user_id \in {1, 2},
          messages \in UNION {[1..k -> {"m1", "m2"}] : k \in 0..MaxMessages} :
          ingest' = [ingest EXCEPT ![t] =
                        [pc |-> "loop", user_id |-> user_id,
                         messages |-> messages, n |-> 1, pending |-> <<>>]]
    /\ UNCHANGED <<frame, direct, classifier, emails>>

\* lines 58-103, once round the loop: a message stored for the user is
\* skipped; else the message is fetched and a record of it added to the
\* session (processed_at, the time of the call, stands for what the
\* record holds of this fetch)
NextMessage(t) ==
    /\ ingest[t].pc = "loop"
    /\ ingest[t].n <= Len(ingest[t].messages)
    /\ \/ /\ \E k \in 1..Len(emails) :
                /\ emails[k].gmail_id = ingest[t].messages[ingest[t].n]
                /\ emails[k].user_id = ingest[t].user_id
          /\ ingest' = [ingest EXCEPT ![t].n = @ + 1]
       \/ /\ \A k \in 1..Len(emails) :
                \/ emails[k].gmail_id # ingest[t].messages[ingest[t].n]
                \/ emails[k].user_id # ingest[t].user_id
          /\ ingest' = [ingest EXCEPT
                ![t].n = @ + 1,
                ![t].pending = Append(@,
                    [user_id      |-> ingest[t].user_id,
                     gmail_id     |-> ingest[t].messages[ingest[t].n],
                     processed_at |-> t])]
    /\ UNCHANGED <<frame, direct, classifier, emails>>

\* lines 105-115: the commit inserts the pending records, or fails on the
\* constraint, the session rolls back and the call answers HTTP 400
Commit(t) ==
    /\ ingest[t].pc = "loop"
    /\ ingest[t].n > Len(ingest[t].messages)
    /\ \/ /\ UniqueGmailId(emails \o ingest[t].pending)
          /\ emails' = emails \o ingest[t].pending
          /\ ingest' = [ingest EXCEPT ![t].pc = "returned"]
       \/ /\ ~UniqueGmailId(emails \o ingest[t].pending)
          /\ emails' = emails
          /\ ingest' = [ingest EXCEPT ![t].pc = "failed"]
    /\ UNCHANGED <<frame, direct, classifier>>

\* the caller has the answer
IngestEnds(t) ==
    /\ ingest[t].pc \in {"returned", "failed"}
    /\ ingest' = [ingest EXCEPT ![t] = NoIngest]
    /\ UNCHANGED <<frame, direct, classifier, emails>>

SpecIngest ==
    Init
    /\ [][\E t \in Tasks :
              IngestCalled(t) \/ NextMessage(t) \/ Commit(t) \/ IngestEnds(t)]_vars

(***************************************************************************)
(* Properties.  Those of classify_email speak of the frames of Spec (and   *)
(* of SpecMerge, for the merge of lines 425-430), those of                 *)
(* classify_locally of the direct call of SpecLocal, those of              *)
(* ingest_emails of the table and the calls of SpecIngest.                 *)
(***************************************************************************)
\* the confidence of a classification is the number n / 10^d
ConfidenceIs(v, n, d) ==
    /\ v.t = "dict"
    /\ "confidence" \in DOMAIN v.items
    /\ IsNumber(v.items.confidence)
    /\ v.items.confidence.n * Pow10(d) = n * Pow10(v.items.confidence.d)

Has(v, category, priority) ==
    /\ v.t = "dict"
    /\ {"category", "priority"} \subseteq DOMAIN v.items
    /\ v.items.category = Str(category)
    /\ v.items.priority = Str(priority)

\* the call of frame f returned a result tagged with method
Tagged(f, method) ==
    /\ f.pc = "returned"
    /\ ~f.result.raised
    /\ f.result.value.t = "dict"
    /\ {"method", "privacy_protected"} \subseteq DOMAIN f.result.value.items
    /\ f.result.value.items.method = Str(method)
    /\ f.result.value.items.privacy_protected = Bool(TRUE)

\* the names of the functions frame f has called
CallsOf(f) == {f.calls[n].fn : n \in 1..Len(f.calls)}

\* classify_locally gave frame f a result of confidence >= 0.7
LocallyConfident(f) ==
    /\ f.pc # "idle"
    /\ f.local_result.t = "dict"
    /\ NumGE(f.local_result.items.confidence, Num(7, 1))

\* C1: in every classify_email call in which classify_locally returns a
\* result of confidence >= 0.7, the call returns a result with method
\* local_rules and privacy_protected true, calls neither redact_pii nor
\* classify_with_openai, and sends no request.
C1_LocalResultStaysLocal ==
    \A t \in Tasks :
        LocallyConfident(frame[t]) =>
            /\ Tagged(frame[t], "local_rules")
            /\ CallsOf(frame[t]) \cap {"redact_pii", "classify_with_openai"} = {}
            /\ frame[t].request = None
            /\ frame[t].reply = None

\* a call returned on a local result of confidence exactly 0.7
C1_Witness ==
    \E t \in Tasks :
        /\ frame[t].pc = "returned"
        /\ ConfidenceIs(frame[t].local_result, 7, 1)
        /\ Tagged(frame[t], "local_rules")

\* the text and the keywords classify_email is to hand to the remote call
Handed ==
    Table([e \in Emails |->
              [text     |-> redact_pii(e.subject \o " " \o e.body),
               keywords |-> extract_keywords(e.subject \o " " \o e.body)]])

ReachesRemote(f) == f.pc # "idle" /\ "classify_with_openai" \in CallsOf(f)

\* C2: in every classify_email call that reaches the remote call, the call
\* of redact_pii on subject + " " + body comes right before the one call
\* of classify_with_openai, whose arguments are the redacted text and the
\* extracted keywords and nothing else; the request holds text of the
\* redacted text only; and a result the call returns is tagged method
\* openai_api and privacy_protected true.
C2_RedactedBeforeRemote ==
    \A t \in Tasks :
        ReachesRemote(frame[t]) =>
            LET f == frame[t]
                e == f.email_data
            IN  /\ Len(f.calls) = 4
                /\ f.calls[3] = Call("redact_pii", <<e.subject \o " " \o e.body>>)
                /\ f.calls[4] = Call("classify_with_openai",
                                     <<Handed[e].text, Handed[e].keywords>>)
                /\ {n \in 1..4 : f.calls[n].fn = "classify_with_openai"} = {4}
                /\ f.pc = "awaiting" =>
                      f.request.content = Slice(Handed[e].text, 1, 1000)
                /\ f.pc = "returned" => Tagged(f, "openai_api")

\* a call on a text that redaction changes returned a remote result
C2_Witness ==
    \E t \in Tasks :
        /\ ReachesRemote(frame[t])
        /\ Tagged(frame[t], "openai_api")
        /\ frame[t].calls[4].args[1] # full_content(frame[t].email_data)
        /\ frame[t].reply.kind = "reply"

SixFields ==
    {"category", "priority", "confidence", "reasoning", "method",
     "privacy_protected"}

\* C3: whatever the e-mail and whatever the remote service does (any reply,
\* also one that is JSON but no object, or a failure), classify_email
\* raises nothing and returns a record with the six fields category,
\* priority, confidence, reasoning, method and privacy_protected.
C3_NeverRaises ==
    \A t \in Tasks :
        /\ frame[t].pc # "raised"
        /\ frame[t].pc = "returned" =>
              /\ frame[t].result.value.t = "dict"
              /\ SixFields \subseteq DOMAIN frame[t].result.value.items

\* C4: the category of every result classify_email returns, on the local
\* and on the remote path, is one of the ten categories of get_categories.
C4_CategoryInDomain ==
    \A t \in Tasks :
        frame[t].pc = "returned" =>
            \E c \in categories :
                frame[t].result.value.items.category = Str(c)

\* C5: when classify_locally gives no result and the remote call raises,
\* classify_email returns category other, priority medium, confidence 0.2,
\* method openai_api and privacy_protected true.
C5_TransportFallback ==
    \A t \in Tasks :
        (/\ frame[t].pc \in {"returned", "raised"}
         /\ frame[t].local_result = None
         /\ frame[t].reply = Raises)
        => /\ Tagged(frame[t], "openai_api")
           /\ Has(frame[t].result.value, "other", "medium")
           /\ ConfidenceIs(frame[t].result.value, 2, 1)

\* a call without local result whose remote call raised has ended
C5_Witness ==
    \E t \in Tasks :
        /\ frame[t].pc = "returned"
        /\ frame[t].local_result = None
        /\ frame[t].reply = Raises
        /\ ConfidenceIs(frame[t].result.value, 2, 1)

\* the replies with a text, and what the text holds once the fence is
\* stripped and the rest parsed
Texts == {c \in Contents : c.t = "str"}

LoadedOf == Table([c \in Texts |-> json_loads(StripFence(strip(c.s)))])

\* a parsed value with the four fields
HasFields(v) ==
    /\ v.t = "dict"
    /\ {"category", "priority", "confidence", "reasoning"} \subseteq DOMAIN v.items

\* the reply of frame f does not parse, or parses to a value that lacks a
\* field
BadReply(f) ==
    /\ f.pc \in {"returned", "raised"}
    /\ f.reply # None
    /\ f.reply.kind = "reply"
    /\ f.reply.content \in Texts
    /\ ~LoadedOf[f.reply.content].ok \/ ~HasFields(LoadedOf[f.reply.content].v)

\* C6: for every reply that, its fence stripped, does not parse or parses
\* to a value lacking one of category, priority, confidence, reasoning,
\* classify_with_openai returns the fallback other, medium, 0.3.
C6_ParseFallback ==
    \A t \in Tasks :
        BadReply(frame[t]) =>
            /\ Has(frame[t].openai_result, "other", "medium")
            /\ ConfidenceIs(frame[t].openai_result, 3, 1)

\* C7: a result of classify_locally that is not absent has a confidence
\* among 0.9, 0.85, 0.8, 0.75, 0.7.
C7_FixedConfidences ==
    (direct.pc = "returned" /\ direct.result # None) =>
        \/ ConfidenceIs(direct.result, 9, 1)
        \/ ConfidenceIs(direct.result, 85, 2)
        \/ ConfidenceIs(direct.result, 8, 1)
        \/ ConfidenceIs(direct.result, 75, 2)
        \/ ConfidenceIs(direct.result, 7, 1)

\* classify_locally returned the result of the personal rule
C7_Witness ==
    /\ direct.pc = "returned"
    /\ Has(direct.result, "personal", "low")
    /\ ConfidenceIs(direct.result, 7, 1)

\* the rules in the order of the cascade: whether the condition of each
\* holds of the arguments, and the category and confidence it gives
Rules(keywords, sender, subject) ==
    <<[fires |-> SpamRule(keywords), category |-> "spam", n |-> 9, d |-> 1],
      [fires |-> FinancialRule(keywords), category |-> "financial",
       n |-> 85, d |-> 2],
      [fires |-> MeetingRule(keywords), category |-> "meetings",
       n |-> 8, d |-> 1],
      [fires |-> SupportRule(keywords), category |-> "support",
       n |-> 8, d |-> 1],
      [fires |-> WorkRule(keywords), category |-> "work", n |-> 75, d |-> 2],
      [fires |-> PersonalRule(keywords), category |-> "personal",
       n |-> 7, d |-> 1],
      IF FinancialRule(keywords)
      THEN [fires |-> SenderRule(sender), category |-> "financial",
            n |-> 8, d |-> 1]
      ELSE [fires |-> SenderRule(sender), category |-> "notifications",
            n |-> 75, d |-> 2],
      IF PromotionalRule(subject)
      THEN [fires |-> TRUE, category |-> "promotional", n |-> 85, d |-> 2]
      ELSE [fires |-> UrgentRule(subject), category |-> "urgent",
            n |-> 8, d |-> 1],
      [fires |-> ActionRule(keywords), category |-> "action_required",
       n |-> 75, d |-> 2]>>

\* the rules whose conditions hold of the arguments of the direct call
Firing == {k \in 1..9 : Rules(direct.keywords, direct.sender, direct.subject)[k].fires}

Earliest == CHOOSE k \in Firing : \A m \in Firing : k <= m

\* the result is that of rule k
ResultOf(k) ==
    LET r == Rules(direct.keywords, direct.sender, direct.subject)[k]
    IN  /\ direct.result.t = "dict"
        /\ direct.result.items.category = Str(r.category)
        /\ ConfidenceIs(direct.result, r.n, r.d)

\* C8: whenever the conditions of two or more of the rules spam,
\* financial, meetings, support, work, personal, sender, subject,
\* action-required hold, classify_locally returns the category and the
\* confidence of the earliest of them.
C8_FirstMatchWins ==
    (direct.pc = "returned" /\ Cardinality(Firing) >= 2) => ResultOf(Earliest)

\* C9: classify_locally returns absent exactly when none of the rules 1-9
\* fires; when rules 1-6 do not fire and the sender holds noreply,
\* no-reply, notification or support, the result is not absent, and it is
\* notifications, low, 0.75 when no financial term is present.
C9_AbsentIffNoRule ==
    direct.pc = "returned" =>
        /\ (direct.result = None) <=> (Firing = {})
        /\ (Firing \cap (1..6) = {} /\ 7 \in Firing) =>
              /\ direct.result # None
              /\ ~FinancialRule(direct.keywords) =>
                    /\ Has(direct.result, "notifications", "low")
                    /\ ConfidenceIs(direct.result, 75, 2)

\* C10: for the subject "50% off ~ limited time offer, unsubscribe now"
\* and an empty body, extract_keywords followed by classify_locally gives
\* category spam, priority low, confidence 0.9.
C10_SpamScenario ==
    \A t \in Tasks :
        (/\ frame[t].pc # "idle"
         /\ frame[t].email_data.subject
               = "50% off ~ limited time offer, unsubscribe now"
         /\ frame[t].email_data.body = "")
        => /\ Has(frame[t].local_result, "spam", "low")
           /\ ConfidenceIs(frame[t].local_result, 9, 1)

\* the e-mail of the invoice scenario
InvoiceEmail ==
    Email("Urgent: Invoice Payment Required",
          "Your invoice #12345 for $150.00 is overdue. Please pay immediately.",
          "billing@company.com")

\* C11: for the invoice e-mail (subject "Urgent: Invoice Payment Required",
\* sender billing@company.com) the one spam indicator "urgent" does not
\* fire the spam rule, and classify_email returns category financial,
\* priority high, confidence 0.85, method local_rules.
C11_InvoiceScenario ==
    \A t \in Tasks :
        (frame[t].pc # "idle" /\ frame[t].email_data = InvoiceEmail) =>
            /\ keyword_set(frame[t].keywords) \cap spam_indicators = {"urgent"}
            /\ ~SpamRule(frame[t].keywords)
            /\ Tagged(frame[t], "local_rules")
            /\ Has(frame[t].result.value, "financial", "high")
            /\ ConfidenceIs(frame[t].result.value, 85, 2)

\* the call on the invoice e-mail has returned
C11_Witness ==
    \E t \in Tasks :
        /\ frame[t].pc = "returned"
        /\ frame[t].email_data = InvoiceEmail
        /\ FinancialRule(frame[t].keywords)
        /\ Has(frame[t].result.value, "financial", "high")

\* lines 425-427 held of frame f: a local result of the remote category
Merged(f) ==
    /\ Truthy(f.local_result)
    /\ f.local_result.items.category = f.openai_result.items.category

\* b = min(1.0, c + 0.1), for numbers b and c (True is 1 and False 0)
IsBoostOf(b, c) ==
    LET v == IF c.t = "bool" THEN PyInt(IF c.b THEN 1 ELSE 0) ELSE c
    IN  IF 10 * v.n + Pow10(v.d) >= 10 * Pow10(v.d)
        THEN b.n = Pow10(b.d)
        ELSE b.n * 10 * Pow10(v.d) = (10 * v.n + Pow10(v.d)) * Pow10(b.d)

\* C12: in a classify_email call that returns on the remote path, when a
\* local result exists and its category equals the remote category the
\* returned confidence is min(1.0, remote confidence + 0.1) and the
\* returned reasoning is the remote reasoning followed by
\* " (confirmed by local rules)"; in every other case confidence and
\* reasoning are those classify_with_openai returned.
C12_MergeBoost ==
    \A t \in Tasks :
        (frame[t].pc = "returned" /\ ReachesRemote(frame[t])) =>
            LET remote   == frame[t].openai_result.items
                returned == frame[t].result.value.items
            IN  IF Merged(frame[t])
                THEN /\ IsBoostOf(returned.confidence, remote.confidence)
                     /\ returned.reasoning
                           = Str(remote.reasoning.s \o " (confirmed by local rules)")
                ELSE /\ returned.confidence = remote.confidence
                     /\ returned.reasoning = remote.reasoning

\* a call returned a boosted confidence below the cap and the suffix
C12_Witness ==
    \E t \in Tasks :
        /\ frame[t].pc = "returned"
        /\ ReachesRemote(frame[t])
        /\ Merged(frame[t])
        /\ ConfidenceIs(frame[t].openai_result, 55, 2)
        /\ ConfidenceIs(frame[t].result.value, 65, 2)
        /\ frame[t].result.value.items.reasoning
              = Str("Unclear (confirmed by local rules)")

\* C13: the confidence of every result classify_email returns, from the
\* local rules, a remote reply, a fallback or the boost, is a number in
\* the interval [0, 1].
C13_ConfidenceInUnitInterval ==
    \A t \in Tasks :
        frame[t].pc = "returned" =>
            LET confidence == frame[t].result.value.items.confidence
            IN  /\ IsNumber(confidence)
                /\ 0 <= confidence.n
                /\ confidence.n <= Pow10(confidence.d)

\* the keyword list of the direct call holds an urgency-tagged keyword
UrgencyTagged ==
    \E n \in 1..Len(direct.keywords) : startswith(direct.keywords[n], "urgency:")

\* C14: when classify_locally returns the result of the meetings rule, the
\* priority is high if the keyword list holds a keyword tagged urgency
\* ("urgency:<term>") and medium otherwise.
C14_MeetingPriority ==
    (/\ direct.pc = "returned"
     /\ direct.result # None
     /\ direct.result.items.category = Str("meetings"))
    => direct.result.items.priority
          = Str(IF UrgencyTagged THEN "high" ELSE "medium")

\* C15: when classify_locally returns the result of the work rule, the
\* priority is high if the keyword list holds a keyword tagged urgency
\* ("urgency:<term>") and medium otherwise.
C15_WorkPriority ==
    (/\ direct.pc = "returned"
     /\ direct.result # None
     /\ direct.result.items.category = Str("work"))
    => direct.result.items.priority
          = Str(IF UrgencyTagged THEN "high" ELSE "medium")

\* the text of each e-mail after the substitutions in the order e-mail
\* address, the three phone patterns, URL, credit card, SSN, honorific and
\* name, street address
InOrder ==
    Table([e \in Emails |->
        re_sub(AddressPattern, "[ADDRESS]",
        re_sub(NamePattern, "[NAME]",
        re_sub(SsnPattern, "[SSN]",
        re_sub(CardPattern, "[CARD]",
        re_sub(UrlPattern, "[URL]",
        re_sub(phone_patterns[3], "[PHONE]",
        re_sub(phone_patterns[2], "[PHONE]",
        re_sub(phone_patterns[1], "[PHONE]",
        re_sub(EmailPattern, "[EMAIL]", full_content(e))))))))))])

\* what the redact_pii call of frame f returned: the text handed on to
\* classify_with_openai
Redacted(f) == f.calls[4].args[1]

\* C16: redact_pii applies its substitutions in the order e-mail address,
\* phone (three patterns), URL, credit card, SSN, honorific and name,
\* street address; for "Contact John Doe at john@example.com or
\* 555-123-4567" the result has [EMAIL] for the address and [PHONE] for
\* the number, and neither an '@' nor a digit.
C16_RedactionOrder ==
    \A t \in Tasks :
        ReachesRemote(frame[t]) =>
            /\ frame[t].calls[3].fn = "redact_pii"
            /\ Redacted(frame[t]) = InOrder[frame[t].email_data]
            /\ frame[t].calls[3].args[1]
                  = "Contact John Doe at john@example.com or 555-123-4567"
               => /\ Redacted(frame[t]) = "Contact John Doe at [EMAIL] or [PHONE]"
                  /\ \A n \in 1..Len(Redacted(frame[t])) :
                        ~Contains("@" \o DIGIT, Char(Redacted(frame[t]), n))

\* redact_pii has run on the text of the scenario, and on a text the
\* order matters for
C16_Witness ==
    \E t, u \in Tasks :
        /\ ReachesRemote(frame[t])
        /\ frame[t].calls[3].args[1]
              = "Contact John Doe at john@example.com or 555-123-4567"
        /\ ReachesRemote(frame[u])
        /\ Redacted(frame[u]) = "Numbers [EMAIL], 5 Oak [NAME]"

\* what classify_email returns or raises on e-mail e when it runs alone
\* and its remote call, if it makes one, ends with outcome
Alone(e, outcome) ==
    IF StartOf[e].returned THEN StartOf[e].result
    ELSE FinishRemote(StartOf[e].local_result, AnswerOf[e][outcome])

\* C17: under every interleaving of the classify_email calls on the one
\* classifier instance, each call holds, suspended, the locals it would
\* hold alone, and ends with the result it would have alone on the same
\* e-mail and the same outcome of the remote call; and the tables of the
\* instance stay as __init__ made them.
C17_CallsIndependent ==
    /\ classifier = EmailClassifier
    /\ \A t \in Tasks :
          /\ frame[t].pc = "awaiting" =>
                frame[t] = Called(frame[t].email_data, StartOf[frame[t].email_data])
          /\ frame[t].pc \in {"returned", "raised"} =>
                frame[t].result = Alone(frame[t].email_data, frame[t].reply)

\* a call got its reply and returned while another call, made after a
\* call that left a local result, is suspended
C17_Witness ==
    \E t, u \in Tasks :
        /\ frame[t].pc = "awaiting"
        /\ frame[u].pc = "returned"
        /\ ReachesRemote(frame[u])
        /\ frame[u].reply # Raises
        /\ frame[u].email_data # frame[t].email_data

\* the calls of classify_with_openai frame f has made
RemoteCalls(f) == {n \in 1..Len(f.calls) : f.calls[n].fn = "classify_with_openai"}

\* C18: a classify_email call invokes the remote service at most once: a
\* call on the local path never, and a call on the remote path once, the
\* request being in flight only while the call is suspended; when the
\* awaited call ends, by a reply or a failure, classify_email ends, and
\* no call is suspended a second time.
C18_OneRemoteInvocation ==
    /\ [](\A t \in Tasks :
             /\ Cardinality(RemoteCalls(frame[t])) <= 1
             /\ (frame[t].request # None) <=> (frame[t].pc = "awaiting")
             /\ (frame[t].pc # "idle" /\ UseLocal(frame[t].local_result)) =>
                   /\ RemoteCalls(frame[t]) = {}
                   /\ frame[t].reply = None)
    /\ [][\A t \in Tasks :
             frame'[t] # frame[t] =>
                 /\ frame'[t].pc = "awaiting" => frame[t].pc = "idle"
                 /\ frame[t].pc = "awaiting" =>
                       frame'[t].pc \in {"returned", "raised"}]_vars

\* calls have ended after one failure of the transport and after one
\* reply that does not parse
C18_Witness ==
    \E t, u \in Tasks :
        /\ frame[t].pc = "returned"
        /\ frame[t].reply = Raises
        /\ Cardinality(RemoteCalls(frame[t])) = 1
        /\ frame[u].pc = "returned"
        /\ frame[u].reply = Reply(Str("I think this email is about work."))
        /\ ConfidenceIs(frame[u].result.value, 3, 1)

\* C19: classify_email makes the remote call only when classify_locally
\* returned None: every other local result has confidence >= 0.7 and is
\* returned as it is, tagged local_rules; so a result returned on the
\* remote path has the confidence and the reasoning classify_with_openai
\* gave, without the boost of 0.1 and without the suffix
\* " (confirmed by local rules)".
C19_MergeNeverApplies ==
    \A t \in Tasks :
        frame[t].pc # "idle" =>
            /\ frame[t].local_result # None =>
                  /\ LocallyConfident(frame[t])
                  /\ Tagged(frame[t], "local_rules")
                  /\ ~ReachesRemote(frame[t])
            /\ ReachesRemote(frame[t]) => frame[t].local_result = None
            /\ (frame[t].pc = "returned" /\ ReachesRemote(frame[t])) =>
                  /\ frame[t].result.value.items.confidence
                        = frame[t].openai_result.items.confidence
                  /\ frame[t].result.value.items.reasoning
                        = frame[t].openai_result.items.reasoning

\* a call returned the work result of classify_locally, and a call
\* without local result returned a remote result of category work, not
\* boosted
C19_Witness ==
    \E t, u \in Tasks :
        /\ Tagged(frame[t], "local_rules")
        /\ Has(frame[t].local_result, "work", "medium")
        /\ Tagged(frame[u], "openai_api")
        /\ frame[u].local_result = None
        /\ Has(frame[u].result.value, "work", "high")
        /\ ConfidenceIs(frame[u].result.value, 9, 1)

\* C20: whatever ingest_emails calls run, also interleaved for one mailbox
\* and on a list that names a message twice, the table emails never holds
\* two rows of one Gmail message id; a stored row is never changed; and a
\* message whose id is stored for the user is skipped.
C20_OneRowPerMessage ==
    /\ [](\A j, k \in 1..Len(emails) :
              emails[j].gmail_id = emails[k].gmail_id => j = k)
    /\ [][/\ \A k \in 1..Len(emails) :
                Len(emails') >= k /\ emails'[k] = emails[k]
          /\ \A t \in Tasks :
                (/\ ingest[t].pc = "loop"
                 /\ ingest'[t] # ingest[t]
                 /\ ingest[t].n <= Len(ingest[t].messages)
                 /\ \E k \in 1..Len(emails) :
                       /\ emails[k].gmail_id = ingest[t].messages[ingest[t].n]
                       /\ emails[k].user_id = ingest[t].user_id)
                => /\ ingest'[t].pending = ingest[t].pending
                   /\ ingest'[t].n = ingest[t].n + 1]_vars

\* two calls for one user added the same message; one committed its row
\* and the other failed at its commit
C20_Witness ==
    \E t, u \in Tasks :
        /\ ingest[t].pc = "returned"
        /\ ingest[u].pc = "failed"
        /\ ingest[t].user_id = ingest[u].user_id
        /\ \E j \in 1..Len(ingest[t].pending), k \in 1..Len(ingest[u].pending) :
              /\ ingest[t].pending[j].gmail_id = ingest[u].pending[k].gmail_id
              /\ ingest[t].pending[j] \in Range(emails)

====
